---- MODULE Spec2Model ----
(***************************************************************************)
(* Model of the SDTM orchestrator (orchestrator/main.py) and its pipeline  *)
(* state record (orchestrator/core/state.py).                              *)
(*                                                                         *)
(* One behaviour is a series of command-line invocations of main() that    *)
(* share the files on disk: pipeline_state.json and the two specification  *)
(* files.  Inside an invocation every stage function is one step.          *)
(*                                                                         *)
(* The collaborators of the stage functions (spec builder, reviewer, human *)
(* review, generators, Rscript, compare_datasets, validate_dataset) are    *)
(* inputs of the steps: what they return is chosen from small sets.  They  *)
(* are taken to return; a generated program that never terminates and an   *)
(* exception escaping a collaborator other than compare_datasets are not   *)
(* modelled.  The --training and --report modes do not run the pipeline    *)
(* and are left out.                                                       *)
(*                                                                         *)
(* Two collaborators are pure functions of the files they read and have    *)
(* specifications of their own, over small data frames: CompareSpec for    *)
(* compare_datasets (orchestrator/core/compare.py) and ValidateSpec for    *)
(* validate_dataset (orchestrator/agents/validation_agent.py).             *)
(***************************************************************************)
EXTENDS Integers, Sequences, FiniteSets, TLC

VARIABLES
    state,          \* the in-memory PipelineState of the running invocation
    disk,           \* pipeline_state.json: <<record>>, or NoFile
    draft_spec,     \* <domain>_mapping_spec.json exists
    approved_spec,  \* <domain>_mapping_spec_approved.json exists
    max_iterations, \* config: comparison.max_iterations
    args,           \* parsed command line of the running invocation
    pc,             \* position of main(): "idle" when no invocation is running
    iteration,      \* local variable `iteration` of main()
    exit_code,      \* exit code of the last finished invocation
    start,          \* the state the invocation started from, and whether it was loaded
    runs,           \* how often the invocation has run each stage function
    last,           \* the stage function the invocation ran last, and its outcome
    warned,         \* the invocation printed "WARNING: Still mismatched ..."
    invocations,    \* number of invocations started
    cmp,            \* a comparison of two datasets by compare_datasets
    val,            \* a validation of a dataset by validate_dataset
    gen             \* two runs of the generator pair on one specification

vars == <<state, disk, draft_spec, approved_spec, max_iterations, args, pc,
          iteration, exit_code, start, runs, last, warned, invocations, cmp, val, gen>>

\* ---------------------------------------------------------------- bounds
MaxInvocations == 2
MaxMaxIterations == 2
MaxRows == 2
MaxValidateRows == 1

\* ------------------------------------------------------------- constants
StderrPrintLimit == 2000
ProductionFallbackLen == 26
QcFallbackLen == 18

\* pipeline_state.json is absent: the file holds no record.
NoFile == <<>>
NotRun == -1

\* The nominal phase order (state.py, comment of current_phase).
Phases == <<"spec_building", "spec_review", "human_review", "production",
            "qc", "comparison", "validation">>

PhaseIdx(p) == CHOOSE i \in 1..Len(Phases) : Phases[i] = p

\* The --stage names and the phase each one sets.
StageNames == {"spec_build", "spec_review", "human_review", "production",
               "qc", "compare", "validate"}

StagePhase(s) ==
    CASE s = "spec_build"   -> "spec_building"
      [] s = "spec_review"  -> "spec_review"
      [] s = "human_review" -> "human_review"
      [] s = "production"   -> "production"
      [] s = "qc"           -> "qc"
      [] s = "compare"      -> "comparison"
      [] s = "validate"     -> "validation"

\* Lengths of the stderr text a generated program may leave: empty, and
\* longer than what the stage prints of it.
StderrLens == {0, StderrPrintLimit + 1}

ExitCodes == {0, 1}
CompareOutcomes == {"match", "mismatch", "raise"}
\* What the reviewer decided: the fields with a recorded decision.
HumanDecisionChoices == {{"RACE"}}

\* ------------------------------------------------------- PipelineState
PipelineState ==
    [current_phase        |-> "spec_building",
     spec_status          |-> "draft",
     production_status    |-> "pending",
     qc_status            |-> "pending",
     comparison_result    |-> "pending",
     comparison_iteration |-> 0,
     validation_status    |-> "pending",
     human_decisions      |-> {},
     error_log            |-> <<>>,
     artifacts            |-> {}]

set_phase(st, phase) == [st EXCEPT !.current_phase = phase]

set_spec_status(st, status) == [st EXCEPT !.spec_status = status]

record_error(st, message) == [st EXCEPT !.error_log = Append(@, message)]

\* Variant: the registry is replaced by the new entry.
set_artifact_replace(st, key) == [st EXCEPT !.artifacts = {key}]

\* self.artifacts[key] = path; the registry is modelled by its keys, the path
\* of a key being fixed by the configuration.
set_artifact(st, key) == [st EXCEPT !.artifacts = @ \cup {key}]

\* The decimal numerals json.dump writes for the integers of this model.
Decimal == <<"0", "1", "2", "3", "4", "5", "6", "7", "8", "9">>

\* json.dump / json.load of an int: its decimal text and back.
json_dump_int(n) == Decimal[n + 1]

json_load_int(text) == CHOOSE n \in 0..(Len(Decimal) - 1) : Decimal[n + 1] = text

\* json.dump(asdict(self), f): the document has one member per field.  A
\* str field is a JSON string, the int field a numeral, the list of str an
\* array in list order, a dict with str keys an object with those keys.
json_dump(st) == [st EXCEPT !.comparison_iteration = json_dump_int(@)]

\* json.load(f): the dict of the document's members.
json_load(doc) == [doc EXCEPT !.comparison_iteration = json_load_int(@)]

\* The file pipeline_state.json: NoFile, or the one document in it.
PipelineState_save(st) == <<json_dump(st)>>

\* Variant: the iteration counter is not restored from the file.
PipelineState_load_nocounter(file) == [json_load(file[1]) EXCEPT !.comparison_iteration = 0]

\* cls(**json.load(f)): each member becomes the field of its name.
PipelineState_load(file) == json_load(file[1])

write_xpt == TRUE

\* ------------------------------------------------------ stage functions
\* A stage function applied to the state st gives: the state it leaves, the
\* value it returns (TRUE for the stages that return None) and whether it
\* called _save_state().

\* Variant: the message is cut like the printed text, result.stderr[:2000].
ErrorMessage_truncated(stderr_len, fallback, fallback_len) ==
    IF stderr_len = 0
    THEN [text |-> fallback, len |-> fallback_len]
    ELSE [text |-> "stderr",
          len |-> IF stderr_len > StderrPrintLimit THEN StderrPrintLimit ELSE stderr_len]

\* result.stderr or "<fallback>": the message record_error receives.
ErrorMessage(stderr_len, fallback, fallback_len) ==
    IF stderr_len = 0
    THEN [text |-> fallback, len |-> fallback_len]
    ELSE [text |-> "stderr", len |-> stderr_len]

run_stage_spec_build(st) ==
    LET s1 == set_phase(st, "spec_building")
        s2 == set_spec_status(s1, "draft")
        s3 == set_artifact(s2, "draft_spec")
    IN [state |-> s3, ret |-> TRUE, saved |-> TRUE]

run_stage_spec_review(st, has_draft, review_pass) ==
    LET s1 == set_phase(st, "spec_review")
    IN IF ~has_draft
       THEN [state |-> s1, ret |-> FALSE, saved |-> FALSE]
       ELSE [state |-> set_spec_status(s1, IF review_pass THEN "reviewed" ELSE "draft"),
             ret |-> review_pass, saved |-> TRUE]

run_stage_human_review(st, has_draft, decisions) ==
    LET s1 == set_phase(st, "human_review")
    IN IF ~has_draft
       THEN [state |-> s1, ret |-> TRUE, saved |-> FALSE]
       ELSE LET s2 == [s1 EXCEPT !.human_decisions = decisions]
                s3 == set_spec_status(s2, "approved")
                s4 == set_artifact(s3, "approved_spec")
            IN [state |-> s4, ret |-> TRUE, saved |-> TRUE]

run_stage_production(st, has_spec, rc, stderr_len) ==
    LET s1 == set_phase(st, "production")
    IN IF ~has_spec
       THEN [state |-> s1, ret |-> FALSE, saved |-> FALSE]
       ELSE LET s2 == set_artifact(set_artifact(s1, "production_script"),
                                   "production_dataset")
                s3 == IF write_xpt THEN set_artifact(s2, "production_xpt") ELSE s2
            IN IF rc # 0
               THEN [state |-> [record_error(s3,
                                    ErrorMessage(stderr_len,
                                                 "Production R script failed",
                                                 ProductionFallbackLen))
                                EXCEPT !.production_status = "failed"],
                     ret |-> FALSE, saved |-> TRUE]
               ELSE [state |-> [s3 EXCEPT !.production_status = "completed"],
                     ret |-> TRUE, saved |-> TRUE]

run_stage_qc(st, has_spec, rc, stderr_len) ==
    LET s1 == set_phase(st, "qc")
    IN IF ~has_spec
       THEN [state |-> s1, ret |-> FALSE, saved |-> FALSE]
       ELSE LET s2 == set_artifact(set_artifact(s1, "qc_script"), "qc_dataset")
            IN IF rc # 0
               THEN [state |-> [record_error(s2,
                                    ErrorMessage(stderr_len,
                                                 "QC R script failed",
                                                 QcFallbackLen))
                                EXCEPT !.qc_status = "failed"],
                     ret |-> FALSE, saved |-> TRUE]
               ELSE [state |-> [s2 EXCEPT !.qc_status = "completed"],
                     ret |-> TRUE, saved |-> TRUE]

\* Variant: the exception of compare_datasets is recorded in the error log.
run_stage_compare_logged(st, outcome) ==
    LET s1 == set_phase(st, "comparison")
        s2 == IF outcome = "raise" THEN record_error(s1, [text |-> "Compare error", len |-> 0]) ELSE s1
    IN [state |-> [s2 EXCEPT !.comparison_result =
                        IF outcome = "match" THEN "match" ELSE "mismatch"],
        ret |-> TRUE, saved |-> TRUE]

\* outcome is what compare_datasets does: it returns a match or a mismatch
\* verdict, or it raises (a dataset file that is missing or unreadable).
run_stage_compare(st, outcome) ==
    LET s1 == set_phase(st, "comparison")
    IN [state |-> [s1 EXCEPT !.comparison_result =
                        IF outcome = "match" THEN "match" ELSE "mismatch"],
        ret |-> TRUE, saved |-> TRUE]

\* Variant: the verdict of the validation is not recorded.
run_stage_validate_unrecorded(st, has_spec, report_pass) ==
    LET s1 == set_phase(st, "validation")
    IN [state |-> s1, ret |-> TRUE, saved |-> has_spec]

run_stage_validate(st, has_spec, report_pass) ==
    LET s1 == set_phase(st, "validation")
    IN IF ~has_spec
       THEN [state |-> s1, ret |-> TRUE, saved |-> FALSE]
       ELSE [state |-> [s1 EXCEPT !.validation_status =
                            IF report_pass THEN "passed" ELSE "failed"],
             ret |-> TRUE, saved |-> TRUE]

\* ------------------------------------------------------------- main()
\* Variant: the loop test with <= in place of <.
LoopContinues_inclusive(st, it, max) ==
    st.comparison_result = "mismatch" /\ it <= max

\* Variant: the loop stops one loop-back early.
LoopContinues_short(st, it, max) ==
    st.comparison_result = "mismatch" /\ it + 1 < max

\* while state.comparison_result == "mismatch" and iteration < max_iterations
LoopContinues(st, it, max) ==
    st.comparison_result = "mismatch" /\ it < max

\* Variant: the production and QC gates of the first pass do not abort.
MainNext_nogate(pos, ret, st, it, max, force) ==
    CASE pos = "spec_build"      -> "spec_review"
      [] pos = "spec_review"     -> IF ~ret /\ ~force THEN "exit1" ELSE "human_review"
      [] pos = "human_review"    -> "production"
      [] pos = "production"      -> "qc"
      [] pos = "qc"              -> "compare"
      [] pos = "compare"         -> "loop"
      [] pos = "loop"            -> IF st.comparison_result = "mismatch" /\ it < max
                                    THEN "loop_production" ELSE "validate"
      [] pos = "loop_production" -> IF ~ret THEN "validate" ELSE "loop_qc"
      [] pos = "loop_qc"         -> IF ~ret THEN "validate" ELSE "loop_compare"
      [] pos = "loop_compare"    -> "loop"
      [] pos = "validate"        -> "complete"
      [] pos = "complete"        -> "exit0"

\* Variant: a failed re-run inside the loop aborts like one of the first pass.
MainNext_loopabort(pos, ret, st, it, max, force) ==
    CASE pos = "spec_build"      -> "spec_review"
      [] pos = "spec_review"     -> IF ~ret /\ ~force THEN "exit1" ELSE "human_review"
      [] pos = "human_review"    -> "production"
      [] pos = "production"      -> IF ~ret THEN "exit1" ELSE "qc"
      [] pos = "qc"              -> IF ~ret THEN "exit1" ELSE "compare"
      [] pos = "compare"         -> "loop"
      [] pos = "loop"            -> IF st.comparison_result = "mismatch" /\ it < max
                                    THEN "loop_production" ELSE "validate"
      [] pos = "loop_production" -> IF ~ret THEN "exit1" ELSE "loop_qc"
      [] pos = "loop_qc"         -> IF ~ret THEN "exit1" ELSE "loop_compare"
      [] pos = "loop_compare"    -> "loop"
      [] pos = "validate"        -> "complete"
      [] pos = "complete"        -> "exit0"

\* Variant: the spec review gate lets a failed review through without --force.
MainNext_noreviewgate(pos, ret, st, it, max, force) ==
    CASE pos = "spec_build"      -> "spec_review"
      [] pos = "spec_review"     -> "human_review"
      [] pos = "human_review"    -> "production"
      [] pos = "production"      -> IF ~ret THEN "exit1" ELSE "qc"
      [] pos = "qc"              -> IF ~ret THEN "exit1" ELSE "compare"
      [] pos = "compare"         -> "loop"
      [] pos = "loop"            -> IF st.comparison_result = "mismatch" /\ it < max
                                    THEN "loop_production" ELSE "validate"
      [] pos = "loop_production" -> IF ~ret THEN "validate" ELSE "loop_qc"
      [] pos = "loop_qc"         -> IF ~ret THEN "validate" ELSE "loop_compare"
      [] pos = "loop_compare"    -> "loop"
      [] pos = "validate"        -> "complete"
      [] pos = "complete"        -> "exit0"

\* Variant: a failed re-run inside the loop does not break the loop.
MainNext_loopthrough(pos, ret, st, it, max, force) ==
    CASE pos = "spec_build"      -> "spec_review"
      [] pos = "spec_review"     -> IF ~ret /\ ~force THEN "exit1" ELSE "human_review"
      [] pos = "human_review"    -> "production"
      [] pos = "production"      -> IF ~ret THEN "exit1" ELSE "qc"
      [] pos = "qc"              -> IF ~ret THEN "exit1" ELSE "compare"
      [] pos = "compare"         -> "loop"
      [] pos = "loop"            -> IF st.comparison_result = "mismatch" /\ it < max
                                    THEN "loop_production" ELSE "validate"
      [] pos = "loop_production" -> "loop_qc"
      [] pos = "loop_qc"         -> "loop_compare"
      [] pos = "loop_compare"    -> "loop"
      [] pos = "validate"        -> "complete"
      [] pos = "complete"        -> "exit0"

\* The sequence of the full pipeline: where main() goes after the step at
\* position pos returned ret and left the state st.  "exit1" is
\* _save_state(); sys.exit(1), "exit0" the return at the end of main().
MainNext(pos, ret, st, it, max, force) ==
    CASE pos = "spec_build"      -> "spec_review"
      [] pos = "spec_review"     -> IF ~ret /\ ~force THEN "exit1" ELSE "human_review"
      [] pos = "human_review"    -> "production"
      [] pos = "production"      -> IF ~ret THEN "exit1" ELSE "qc"
      [] pos = "qc"              -> IF ~ret THEN "exit1" ELSE "compare"
      [] pos = "compare"         -> "loop"
      [] pos = "loop"            -> IF LoopContinues(st, it, max)
                                    THEN "loop_production" ELSE "validate"
      [] pos = "loop_production" -> IF ~ret THEN "validate" ELSE "loop_qc"
      [] pos = "loop_qc"         -> IF ~ret THEN "validate" ELSE "loop_compare"
      [] pos = "loop_compare"    -> "loop"
      [] pos = "validate"        -> "complete"
      [] pos = "complete"        -> "exit0"

LoopPositions == {"loop", "loop_production", "loop_qc", "loop_compare"}

\* One run of a stage function: the stage, the value of `iteration` when it
\* ran, its outcome, and the length of the stderr text of its program.
LogEntry(stage, it, result, stderr_len) ==
    [stage |-> stage, iter |-> it, result |-> result, stderr |-> stderr_len]

NoEntry == LogEntry("none", 0, "none", 0)

NoRuns == [s \in StageNames |-> 0]

\* Variant: the warning is printed on a match.
AfterLoop_onmatch(st) == st.comparison_result = "match"

\* if state.comparison_result == "mismatch": print("WARNING: Still mismatched ...")
AfterLoop(st) == st.comparison_result = "mismatch"

RunResult(has_spec, rc) ==
    IF ~has_spec THEN "no_spec" ELSE IF rc # 0 THEN "exit_nonzero" ELSE "ok"

\* One step of the full pipeline at position pos: the stage function gave
\* res, and entry records its run (NoEntry when the step runs no stage).
Advance(pos, res, entry) ==
    LET nxt == MainNext(pos, res.ret, res.state, iteration, max_iterations, args.force)
    IN /\ pc = pos
       /\ state' = res.state
       /\ disk' = IF res.saved \/ nxt = "exit1"
                  THEN PipelineState_save(res.state) ELSE disk
       /\ pc' = IF nxt \in {"exit0", "exit1"} THEN "idle" ELSE nxt
       /\ exit_code' = CASE nxt = "exit1" -> 1
                         [] nxt = "exit0" -> 0
                         [] OTHER -> exit_code
       /\ last' = IF entry = NoEntry THEN last ELSE entry
       /\ runs' = IF entry = NoEntry THEN runs
                  ELSE [runs EXCEPT ![entry.stage] = @ + 1]
       /\ warned' = IF pos \in LoopPositions /\ nxt = "validate"
                    THEN AfterLoop(res.state) ELSE warned

\* ------------------------------------------- compare_datasets (compare.py)
\* A dataset is a data frame: its column names and its rows in file order,
\* each row a function from the columns to cells.  A cell is a string or NA
\* (pandas NaN/None).  Column order only fixes the order of the report
\* lines and is left out.
NA == "<NA>"
IdColumn == "USUBJID"
CompareColumns == {"USUBJID", "SEX"}

\* The key values in ascending order.
KeyOrder == <<"S1", "S2">>

CompareCells(c) == IF c = IdColumn THEN {"S1", "S2"} ELSE {NA, "", "M"}

CompareRows(cols) == {r \in [cols -> {NA, "", "M", "S1", "S2"}] : \A c \in cols : r[c] \in CompareCells(c)}

\* The frames of at most MaxRows rows; a file without columns has no rows.
CompareFrames == UNION {{[columns |-> cols, rows |-> rs] : rs \in UNION {[1..n -> CompareRows(cols)] : n \in 0..(IF cols = {} THEN 0 ELSE MaxRows)}} : cols \in SUBSET CompareColumns}

\* df.sort_values(by).reset_index(drop=True): ascending by the key column
\* alone.  Rows with equal keys keep their input order: the default
\* quicksort of numpy sorts fewer than 17 elements by insertion, and the
\* frames of this model are shorter.
RECURSIVE sort_from(_, _, _)
sort_from(rows, by, k) ==
    IF k > Len(KeyOrder) THEN <<>>
    ELSE SelectSeq(rows, LAMBDA r : r[by] = KeyOrder[k]) \o sort_from(rows, by, k + 1)

sort_values(rows, by) == sort_from(rows, by, 1)

\* series.fillna("").astype(str)
fillna_astype_str(v) == IF v = NA THEN "" ELSE v

\* astype(str) without the fillna: a missing cell becomes the text "nan".
astype_str(v) == IF v = NA THEN "nan" ELSE v

\* Variant: only the production side gets the fillna.
DiffRows_prodonly(p, q, col) == {i \in 1..Len(p) : fillna_astype_str(p[i][col]) # astype_str(q[i][col])}

\* The rows of column col in which the normalised cells differ
\* (diff[col] of `diff = prod_sub != qc_sub`).
DiffRows(p, q, col) == {i \in 1..Len(p) : fillna_astype_str(p[i][col]) # fillna_astype_str(q[i][col])}

\* A report without a line for any column.
NoLines == [c \in {} |-> 0]

\* Variant: a mismatch report has a line for every common column.
compare_datasets_everycolumn(prod, qc) ==
    LET sorted == IdColumn \in prod.columns /\ IdColumn \in qc.columns
        p      == IF sorted THEN sort_values(prod.rows, IdColumn) ELSE prod.rows
        q      == IF sorted THEN sort_values(qc.rows, IdColumn) ELSE qc.rows
        common == {c \in prod.columns : c \in qc.columns}
        differ == {c \in common : DiffRows(p, q, c) # {}}
    IN IF Len(p) # Len(q) THEN [kind |-> "raise", report |-> NoLines]
       ELSE IF differ = {} THEN [kind |-> "match", report |-> NoLines]
       ELSE [kind |-> "mismatch", report |-> [c \in common |-> Cardinality(DiffRows(p, q, c))]]

\* compare_datasets(production, qc) on two readable files.  The result is
\* "match", "mismatch" with the report (column -> number of differing rows),
\* or "raise": `prod_sub != qc_sub` raises ValueError when the two frames
\* are not identically labelled, which after reset_index / a fresh read is
\* when they differ in their number of rows.
compare_datasets(prod, qc) ==
    LET sorted == IdColumn \in prod.columns /\ IdColumn \in qc.columns
        p      == IF sorted THEN sort_values(prod.rows, IdColumn) ELSE prod.rows
        q      == IF sorted THEN sort_values(qc.rows, IdColumn) ELSE qc.rows
        common == {c \in prod.columns : c \in qc.columns}
        differ == {c \in common : DiffRows(p, q, c) # {}}
    IN IF Len(p) # Len(q) THEN [kind |-> "raise", report |-> NoLines]
       ELSE IF differ = {} THEN [kind |-> "match", report |-> NoLines]
       ELSE [kind |-> "mismatch", report |-> [c \in differ |-> Cardinality(DiffRows(p, q, c))]]

\* No comparison has been asked for.
NoResult == [kind |-> "none", report |-> NoLines]
NoComparison == [step |-> "none"]

\* ----------------------------------- validate_dataset (validation_agent.py)
\* The dataset file: readable or not, its columns, its rows, and the
\* columns whose pandas dtype is an int or a float.
ValidateColumns == {"USUBJID", "SEX", "RFSTDTC", "AGE"}

ValidateCells(c) ==
    CASE c = "USUBJID" -> {NA, "ST-1", "XX-1"}
      [] c = "SEX"     -> {NA, "M", "X"}
      [] c = "RFSTDTC" -> {"", "2020-01-01", "01JAN2020"}
      [] OTHER         -> {"40"}

ValidateRows(cols) == {r \in [cols -> UNION {ValidateCells(c) : c \in ValidateColumns}] : \A c \in cols : r[c] \in ValidateCells(c)}

Unreadable == [readable |-> FALSE, columns |-> {}, rows |-> <<>>, numeric |-> {}]

ValidateFrames == {Unreadable} \cup UNION {{[readable |-> TRUE, columns |-> cols, rows |-> rs, numeric |-> num] : rs \in UNION {[1..n -> ValidateRows(cols)] : n \in 0..(IF cols = {} THEN 0 ELSE MaxValidateRows)}, num \in SUBSET (cols \cap {"AGE"})} : cols \in SUBSET ValidateColumns}

\* The approved specification: study_id, and per target variable its
\* codelist_code ("" when it has none) and its data_type.
SpecVariables(sex_codelist) ==
    [v \in {"USUBJID", "SEX", "AGE"} |->
        [codelist_code |-> IF v = "SEX" THEN sex_codelist ELSE "",
         data_type     |-> IF v = "AGE" THEN "Num" ELSE "Char"]]

ValidateSpecs == {[study_id |-> sid, variables |-> SpecVariables(cl)] : sid \in {"", "ST"}, cl \in {"", "C99999"}}

\* ig_client: absent or unavailable, or available with its required variables.
IgClients == {[available |-> FALSE, required |-> {}], [available |-> TRUE, required |-> {"USUBJID", "SEX"}]}

CT_VALID_VALUES ==
    [cl \in {"C66731", "C74457", "C66790", "C71113"} |->
        CASE cl = "C66731" -> {"M", "F", "U"}
          [] cl = "C74457" -> {"WHITE", "BLACK OR AFRICAN AMERICAN", "ASIAN",
                               "AMERICAN INDIAN OR ALASKA NATIVE",
                               "NATIVE HAWAIIAN OR OTHER PACIFIC ISLANDER",
                               "OTHER", "MULTIPLE"}
          [] cl = "C66790" -> {"HISPANIC OR LATINO", "NOT HISPANIC OR LATINO",
                               "NOT REPORTED", "UNKNOWN"}
          [] OTHER         -> {"USA", "CANADA", "UNITED KINGDOM", "MEXICO", "GERMANY",
                               "FRANCE", "JAPAN", "CHINA", "INDIA"}]

\* ct_mapping: the three built-in variables, overridden and extended by the
\* variables of the specification that name a codelist.
ct_mapping(spec) ==
    LET named == {v \in DOMAIN spec.variables : spec.variables[v].codelist_code # ""}
    IN [v \in {"SEX", "RACE", "ETHNIC"} \cup named |->
          IF v \in named THEN spec.variables[v].codelist_code
          ELSE CASE v = "SEX" -> "C66731" [] v = "RACE" -> "C74457" [] OTHER -> "C66790"]

\* set(df[col].dropna().astype(str)) and the number of missing cells
NonNull(df, col) == {df.rows[i][col] : i \in {j \in 1..Len(df.rows) : df.rows[j][col] # NA}}
NullCount(df, col) == Cardinality({i \in 1..Len(df.rows) : df.rows[i][col] = NA})

\* re.compile(r"^\d{4}-\d{2}-\d{2}$").match(x), on the dates of the model
iso_pattern_match(x) == x \in {"2020-01-01"}

\* c.endswith("DTC"), on the columns of the model
EndsWithDTC(c) == c \in {"RFSTDTC"}

\* x.startswith(study_id), on the subject ids of the model
startswith(x, study_id) ==
    \/ study_id = ""
    \/ study_id = "ST" /\ x \in {"ST-1"}

\* df["USUBJID"].duplicated().sum(): the rows that repeat an earlier value
\* (a missing value repeats an earlier missing value).
DupCount(df) == Len(df.rows) - Cardinality({df.rows[i]["USUBJID"] : i \in 1..Len(df.rows)})

\* Every check gives: the key and the value it records in report["checks"]
\* (<<kind, variable>> stands for the key f"{kind}_{variable.lower()}"),
\* whether it appends an issue, and whether it sets report["pass"] = False.
Check(kind, var, ok, issue, fail) == [key |-> <<kind, var>>, ok |-> ok, issue |-> issue, fail |-> fail]

\* 1. required variables, from the specification and from the IG
RequiredChecks(df, spec, ig) ==
    LET missing    == (DOMAIN spec.variables) \ df.columns
        ig_missing == ig.required \ df.columns
    IN {Check("required_variables", "", missing = {}, missing # {}, missing # {})}
       \cup (IF ig.available
             THEN {Check("ig_required_variables", "", ig_missing = {}, ig_missing # {}, ig_missing # {})}
             ELSE {})

\* 2. controlled terminology
CtChecks(df, spec) ==
    LET map     == ct_mapping(spec)
        checked == {v \in DOMAIN map : v \in df.columns /\ map[v] \in DOMAIN CT_VALID_VALUES}
        invalid(v) == NonNull(df, v) \ CT_VALID_VALUES[map[v]]
    IN {Check("ct", v, invalid(v) = {}, invalid(v) # {}, invalid(v) # {}) : v \in checked}

\* Variant: the recorded value of the date check is negated.
IsoChecks_inverted(df) ==
    LET non_iso(c) == {x \in NonNull(df, c) : ~(iso_pattern_match(x) \/ x = "")}
    IN {Check("iso", c, non_iso(c) # {}, non_iso(c) # {}, non_iso(c) # {}) : c \in {d \in df.columns : EndsWithDTC(d)}}

\* 3. ISO 8601 dates in every column named ...DTC
IsoChecks(df) ==
    LET non_iso(c) == {x \in NonNull(df, c) : ~(iso_pattern_match(x) \/ x = "")}
    IN {Check("iso", c, non_iso(c) = {}, non_iso(c) # {}, non_iso(c) # {}) : c \in {d \in df.columns : EndsWithDTC(d)}}

\* 4. USUBJID uniqueness and format
UsubjidChecks(df, spec) ==
    LET bad_format == {x \in NonNull(df, "USUBJID") : ~startswith(x, spec.study_id)}
    IN IF "USUBJID" \notin df.columns THEN {}
       ELSE {Check("usubjid_unique", "", DupCount(df) = 0, DupCount(df) > 0, DupCount(df) > 0)}
            \cup (IF spec.study_id # ""
                  THEN {Check("usubjid_format", "", bad_format = {}, bad_format # {}, bad_format # {})}
                  ELSE {})

\* Variant: a type mismatch sets report["pass"] = False.
TypeChecks_binding(df, spec) ==
    LET mismatch(v) == spec.variables[v].data_type = "Num" /\ v \notin df.numeric
    IN {Check("type", v, TRUE, mismatch(v), mismatch(v)) : v \in (DOMAIN spec.variables) \cap df.columns}

\* 5. variable types: an issue when the specification says Num and the
\* dtype is neither int nor float; the check is recorded as True.
TypeChecks(df, spec) ==
    LET mismatch(v) == spec.variables[v].data_type = "Num" /\ v \notin df.numeric
    IN {Check("type", v, TRUE, mismatch(v), FALSE) : v \in (DOMAIN spec.variables) \cap df.columns}

\* 6. required fields not empty
critical_required == {"STUDYID", "DOMAIN", "USUBJID", "SUBJID", "SITEID"}

NotNullChecks(df) ==
    {Check("not_null", v, NullCount(df, v) = 0, NullCount(df, v) > 0, NullCount(df, v) > 0) : v \in critical_required \cap df.columns}

\* validate_dataset(dataset_path, spec, ig_client): the report.  issues
\* holds the keys of the checks that appended an issue.
validate_dataset(df, spec, ig) ==
    LET done == RequiredChecks(df, spec, ig) \cup CtChecks(df, spec) \cup IsoChecks(df)
                \cup UsubjidChecks(df, spec) \cup TypeChecks(df, spec) \cup NotNullChecks(df)
    IN IF ~df.readable
       THEN [pass |-> FALSE, issues |-> {<<"unreadable", "">>}, checks |-> [k \in {} |-> TRUE]]
       ELSE [pass   |-> \A c \in done : ~c.fail,
             issues |-> {c.key : c \in {d \in done : d.issue}},
             checks |-> [k \in {c.key : c \in done} |-> \A c \in done : c.key = k => c.ok]]

NoReport == [pass |-> FALSE, issues |-> {}, checks |-> [k \in {} |-> TRUE]]
NoValidation == [step |-> "none"]

\* ------------------- the generator pair (run_stage_production / run_stage_qc)
\* The approved specification, as far as the generators read it: the RACE
\* approach chosen in the human review.
ApprovedSpecs == {[race |-> "A"], [race |-> "B"]}

ProductionProgram == "dm_production.R"
QcProgram == "dm_qc.R"

\* The memory of a study: whether main() runs with --study (memory is a
\* MemoryManager, else None), whether program_header_template.txt exists,
\* and the number of entries modification_history.yaml holds per program.
NoHistory == [p \in {ProductionProgram, QcProgram} |-> 0]

\* MemoryManager.get_modification_history: one line per entry, or the
\* "Initial creation" line; the text is given by the number of entries.
get_modification_history(mem, program) == IF mem.study THEN mem.history[program] ELSE 0

\* MemoryManager.get_program_header: "" without the template file
\* program_header_template.txt, else the template with its {program_name}
\* and {modification_history} fields filled in (the {creation_date} field
\* is the same day throughout).
NoHeader == [rendered |-> FALSE, program |-> "", history |-> 0]

get_program_header(mem, program) ==
    IF mem.template
    THEN [rendered |-> TRUE, program |-> program, history |-> get_modification_history(mem, program)]
    ELSE NoHeader

\* memory.build_agent_context(domain, agent, study_id, program_name) if
\* memory else None: the program_header entry, the only one the generators read.
build_agent_context(mem, program) == IF mem.study THEN get_program_header(mem, program) ELSE NoHeader

\* MemoryManager.update_modification_history: appends an entry, in a study.
update_modification_history(mem, program) ==
    IF mem.study THEN [mem EXCEPT !.history[program] = @ + 1] ELSE mem

\* generate_r_script / generate_qc_r_script: the program text is fixed by
\* the generator, the specification and the header lines (the header of the
\* memory context when it has one, else the built-in header).
generate_r_script(spec, memory_context) == [generator |-> "production", spec |-> spec, header |-> memory_context]

generate_qc_r_script(spec, memory_context) == [generator |-> "qc", spec |-> spec, header |-> memory_context]

NoScript == [generator |-> "none", spec |-> [race |-> ""], header |-> NoHeader]

\* One study directory: its memory, the two program files and whether the
\* production program of the running invocation exited with 0.
NewStudy(study, template) ==
    [memory |-> [study |-> study, template |-> template, history |-> NoHistory],
     production_script |-> NoScript, qc_script |-> NoScript, production_ok |-> FALSE]

\* run_stage_production, as far as the generator pair goes: generate, write
\* the program, record the modification, run it.
GenerateProductionIn(w, spec, rc) ==
    [w EXCEPT !.production_script = generate_r_script(spec, build_agent_context(w.memory, ProductionProgram)),
              !.memory = update_modification_history(w.memory, ProductionProgram),
              !.qc_script = NoScript,
              !.production_ok = (rc = 0)]

\* run_stage_qc, reached only after a production run that exited with 0.
GenerateQcIn(w, spec) ==
    IF w.production_ok
    THEN [w EXCEPT !.qc_script = generate_qc_r_script(spec, build_agent_context(w.memory, QcProgram)),
                   !.memory = update_modification_history(w.memory, QcProgram)]
    ELSE w

NoGeneration == [step |-> "none"]

\* No invocation of main() has run yet: no state file, no specification.
NotStarted ==
    /\ state = PipelineState
    /\ disk = NoFile
    /\ draft_spec = FALSE
    /\ approved_spec = FALSE
    /\ args = [mode |-> "full", stage |-> "none", resume |-> FALSE, force |-> FALSE]
    /\ pc = "idle"
    /\ iteration = 0
    /\ exit_code = NotRun
    /\ start = [loaded |-> FALSE, state |-> PipelineState]
    /\ runs = NoRuns
    /\ last = NoEntry
    /\ warned = FALSE
    /\ invocations = 0

Init ==
    /\ NotStarted
    /\ max_iterations \in 0..MaxMaxIterations
    /\ cmp = NoComparison
    /\ val = NoValidation
    /\ gen = NoGeneration

\* Variant: the state file is loaded whenever it exists.
Start_alwaysload(mode, stage, resume, force) ==
    LET loaded == disk # NoFile
        st     == IF loaded THEN PipelineState_load(disk) ELSE PipelineState
    IN /\ pc = "idle"
       /\ invocations < MaxInvocations
       /\ invocations' = invocations + 1
       /\ args' = [mode |-> mode, stage |-> stage, resume |-> resume, force |-> force]
       /\ state' = st
       /\ start' = [loaded |-> loaded, state |-> st]
       /\ pc' = IF mode = "stage" THEN "stage" ELSE "spec_build"
       /\ iteration' = 0
       /\ runs' = NoRuns
       /\ last' = NoEntry
       /\ warned' = FALSE
       /\ exit_code' = NotRun
       /\ UNCHANGED <<disk, draft_spec, approved_spec, max_iterations, cmp, val, gen>>

\* A new invocation of main(): parse the command line, then load the state
\* from disk if --resume was given and the file exists, else a fresh state.
Start(mode, stage, resume, force) ==
    LET loaded == resume /\ disk # NoFile
        st     == IF loaded THEN PipelineState_load(disk) ELSE PipelineState
    IN /\ pc = "idle"
       /\ invocations < MaxInvocations
       /\ invocations' = invocations + 1
       /\ args' = [mode |-> mode, stage |-> stage, resume |-> resume, force |-> force]
       /\ state' = st
       /\ start' = [loaded |-> loaded, state |-> st]
       /\ pc' = IF mode = "stage" THEN "stage" ELSE "spec_build"
       /\ iteration' = 0
       /\ runs' = NoRuns
       /\ last' = NoEntry
       /\ warned' = FALSE
       /\ exit_code' = NotRun
       /\ UNCHANGED <<disk, draft_spec, approved_spec, max_iterations, cmp, val, gen>>

StartFull ==
    \E resume \in BOOLEAN, force \in BOOLEAN : Start("full", "none", resume, force)

StartStage ==
    \E stage \in StageNames \cup {"bogus"}, resume \in BOOLEAN :
        Start("stage", stage, resume, FALSE)

\* ---- the steps of the full pipeline
SpecBuild ==
    /\ Advance("spec_build", run_stage_spec_build(state),
               LogEntry("spec_build", iteration, "ok", 0))
    /\ draft_spec' = TRUE
    /\ UNCHANGED <<approved_spec, max_iterations, args, iteration, start, invocations, cmp, val, gen>>

SpecReview ==
    \E review_pass \in BOOLEAN :
        /\ Advance("spec_review", run_stage_spec_review(state, draft_spec, review_pass),
                   LogEntry("spec_review", iteration,
                              IF ~draft_spec THEN "no_spec"
                              ELSE IF review_pass THEN "pass" ELSE "fail", 0))
        /\ UNCHANGED <<draft_spec, approved_spec, max_iterations, args, iteration,
                       start, invocations, cmp, val, gen>>

HumanReview ==
    \E decisions \in HumanDecisionChoices :
        /\ Advance("human_review", run_stage_human_review(state, draft_spec, decisions),
                   LogEntry("human_review", iteration,
                              IF draft_spec THEN "ok" ELSE "no_spec", 0))
        /\ approved_spec' = (approved_spec \/ draft_spec)
        /\ UNCHANGED <<draft_spec, max_iterations, args, iteration, start, invocations, cmp, val, gen>>

ProductionAt(pos) ==
    \E rc \in ExitCodes, stderr_len \in StderrLens :
        LET has_spec == approved_spec \/ draft_spec
        IN /\ (rc = 0 => stderr_len = 0)
           /\ Advance(pos, run_stage_production(state, has_spec, rc, stderr_len),
                      LogEntry("production", iteration, RunResult(has_spec, rc),
                                 stderr_len))
           /\ UNCHANGED <<draft_spec, approved_spec, max_iterations, args, iteration,
                          start, invocations, cmp, val, gen>>

QcAt(pos) ==
    \E rc \in ExitCodes, stderr_len \in StderrLens :
        LET has_spec == approved_spec \/ draft_spec
        IN /\ (rc = 0 => stderr_len = 0)
           /\ Advance(pos, run_stage_qc(state, has_spec, rc, stderr_len),
                      LogEntry("qc", iteration, RunResult(has_spec, rc), stderr_len))
           /\ UNCHANGED <<draft_spec, approved_spec, max_iterations, args, iteration,
                          start, invocations, cmp, val, gen>>

CompareAt(pos) ==
    \E outcome \in CompareOutcomes :
        /\ Advance(pos, run_stage_compare(state, outcome),
                   LogEntry("compare", iteration, outcome, 0))
        /\ UNCHANGED <<draft_spec, approved_spec, max_iterations, args, start, invocations, cmp, val, gen>>

Production == ProductionAt("production")

Qc == QcAt("qc")

\* run_stage_compare(); iteration = 0
Compare == CompareAt("compare") /\ iteration' = 0

\* The loop test and, when it holds, the first two statements of the body:
\* iteration += 1; state.comparison_iteration = iteration
LoopTest ==
    LET enter == LoopContinues(state, iteration, max_iterations)
        it    == IF enter THEN iteration + 1 ELSE iteration
        st    == IF enter THEN [state EXCEPT !.comparison_iteration = it] ELSE state
    IN /\ Advance("loop", [state |-> st, ret |-> TRUE, saved |-> FALSE], NoEntry)
       /\ iteration' = it
       /\ UNCHANGED <<draft_spec, approved_spec, max_iterations, args, start, invocations, cmp, val, gen>>

LoopProduction == ProductionAt("loop_production")

LoopQc == QcAt("loop_qc")

LoopCompare == CompareAt("loop_compare") /\ UNCHANGED iteration

Validate ==
    \E report_pass \in BOOLEAN :
        LET has_spec == approved_spec \/ draft_spec
        IN /\ Advance("validate", run_stage_validate(state, has_spec, report_pass),
                      LogEntry("validate", iteration,
                                 IF ~has_spec THEN "no_spec"
                                 ELSE IF report_pass THEN "pass" ELSE "fail", 0))
           /\ UNCHANGED <<draft_spec, approved_spec, max_iterations, args, iteration,
                          start, invocations, cmp, val, gen>>

\* print("Pipeline complete."); _save_state(); return
Complete ==
    /\ Advance("complete", [state |-> state, ret |-> TRUE, saved |-> TRUE], NoEntry)
    /\ UNCHANGED <<draft_spec, approved_spec, max_iterations, args, iteration,
                   start, invocations, cmp, val, gen>>

\* ---- a single stage: stages[args.stage](); return
StageResult(stage, st, has_draft, has_spec, review_pass, decisions, rc, stderr_len, outcome, report_pass) ==
    CASE stage = "spec_build"   -> run_stage_spec_build(st)
      [] stage = "spec_review"  -> run_stage_spec_review(st, has_draft, review_pass)
      [] stage = "human_review" -> run_stage_human_review(st, has_draft, decisions)
      [] stage = "production"   -> run_stage_production(st, has_spec, rc, stderr_len)
      [] stage = "qc"           -> run_stage_qc(st, has_spec, rc, stderr_len)
      [] stage = "compare"      -> run_stage_compare(st, outcome)
      [] stage = "validate"     -> run_stage_validate(st, has_spec, report_pass)

StageLogResult(stage, has_draft, has_spec, review_pass, rc, outcome, report_pass) ==
    CASE stage = "spec_build"   -> "ok"
      [] stage = "spec_review"  -> IF ~has_draft THEN "no_spec"
                                   ELSE IF review_pass THEN "pass" ELSE "fail"
      [] stage = "human_review" -> IF has_draft THEN "ok" ELSE "no_spec"
      [] stage = "production"   -> RunResult(has_spec, rc)
      [] stage = "qc"           -> RunResult(has_spec, rc)
      [] stage = "compare"      -> outcome
      [] stage = "validate"     -> IF ~has_spec THEN "no_spec"
                                   ELSE IF report_pass THEN "pass" ELSE "fail"

\* The exit code of a single-stage invocation: sys.exit(1) for an unknown
\* stage name, else the plain return after the stage function.
SingleStageExit(stage, ret) == IF stage \in StageNames THEN 0 ELSE 1

SingleStage ==
    \E review_pass \in BOOLEAN, decisions \in HumanDecisionChoices,
       rc \in ExitCodes, stderr_len \in StderrLens,
       outcome \in CompareOutcomes, report_pass \in BOOLEAN :
        LET stage    == args.stage
            has_spec == approved_spec \/ draft_spec
            known    == stage \in StageNames
            res      == IF known
                        THEN StageResult(stage, state, draft_spec, has_spec, review_pass,
                                         decisions, rc, stderr_len, outcome, report_pass)
                        ELSE [state |-> state, ret |-> FALSE, saved |-> FALSE]
        IN /\ pc = "stage"
           \* inputs the stage does not read are fixed, so that one run of a
           \* stage is one step
           /\ (stage # "spec_review" => review_pass)
           /\ (stage \notin {"production", "qc"} => rc = 0)
           /\ (rc = 0 => stderr_len = 0)
           /\ (stage # "compare" => outcome = "match")
           /\ (stage # "validate" => report_pass)
           /\ state' = res.state
           /\ disk' = IF res.saved THEN PipelineState_save(res.state) ELSE disk
           /\ draft_spec' = (draft_spec \/ stage = "spec_build")
           /\ approved_spec' = (approved_spec \/ (stage = "human_review" /\ draft_spec))
           /\ last' = IF known
                      THEN LogEntry(stage, iteration,
                                    StageLogResult(stage, draft_spec, has_spec,
                                                   review_pass, rc, outcome, report_pass),
                                    stderr_len)
                      ELSE last
           /\ runs' = IF known THEN [runs EXCEPT ![stage] = @ + 1] ELSE runs
           /\ UNCHANGED warned
           /\ pc' = "idle"
           /\ exit_code' = SingleStageExit(stage, res.ret)
           /\ UNCHANGED <<max_iterations, args, iteration, start, invocations, cmp, val, gen>>

\* ------------------------------------------------------- specification
Step ==
    \/ SpecBuild
    \/ SpecReview
    \/ HumanReview
    \/ Production
    \/ Qc
    \/ Compare
    \/ LoopTest
    \/ LoopProduction
    \/ LoopQc
    \/ LoopCompare
    \/ Validate
    \/ Complete
    \/ SingleStage

Next ==
    \/ StartFull
    \/ StartStage
    \/ SpecBuild
    \/ SpecReview
    \/ HumanReview
    \/ Production
    \/ Qc
    \/ Compare
    \/ LoopTest
    \/ LoopProduction
    \/ LoopQc
    \/ LoopCompare
    \/ Validate
    \/ Complete
    \/ SingleStage

Spec == Init /\ [][Next]_vars

\* The invocations without --stage: main() runs the full pipeline.
FullPipelineNext ==
    \/ StartFull
    \/ SpecBuild
    \/ SpecReview
    \/ HumanReview
    \/ Production
    \/ Qc
    \/ Compare
    \/ LoopTest
    \/ LoopProduction
    \/ LoopQc
    \/ LoopCompare
    \/ Validate
    \/ Complete

\* A series of full-pipeline invocations in which a running invocation keeps
\* running: main() is sequential and each of its steps returns once its
\* external program has.
FairSpec == Init /\ [][FullPipelineNext]_vars /\ WF_vars(Step)

\* --------------------------------------- specification: compare_datasets
\* compare_datasets is called on two dataset files, then on the same files
\* in the other order, then again after the rows of one file were
\* reordered.
orchestrator == <<state, disk, draft_spec, approved_spec, max_iterations, args, pc, iteration, exit_code, start, runs, last, warned, invocations>>

\* rows with rows i and i+1 exchanged
SwapRows(rows, i) == [j \in 1..Len(rows) |-> IF j = i THEN rows[i + 1] ELSE IF j = i + 1 THEN rows[i] ELSE rows[j]]

CompareInit ==
    /\ NotStarted
    /\ max_iterations = 0
    /\ val = NoValidation
    /\ gen = NoGeneration
    /\ \E a \in CompareFrames, b \in CompareFrames :
          cmp = [step |-> "read", prod |-> a, qc |-> b, direct |-> NoResult,
                 swapped |-> NoResult, reordered |-> NoResult, side |-> "none"]

CompareDirect ==
    /\ cmp.step = "read"
    /\ cmp' = [cmp EXCEPT !.step = "direct", !.direct = compare_datasets(cmp.prod, cmp.qc)]
    /\ UNCHANGED <<orchestrator, val, gen>>

CompareSwapped ==
    /\ cmp.step = "direct"
    /\ cmp' = [cmp EXCEPT !.step = "swapped", !.swapped = compare_datasets(cmp.qc, cmp.prod)]
    /\ UNCHANGED <<orchestrator, val, gen>>

CompareReordered ==
    /\ cmp.step = "swapped"
    /\ \E side \in {"prod", "qc"} :
         LET rows == IF side = "prod" THEN cmp.prod.rows ELSE cmp.qc.rows
         IN \E i \in 1..(Len(rows) - 1) :
              LET a == IF side = "prod" THEN [cmp.prod EXCEPT !.rows = SwapRows(rows, i)] ELSE cmp.prod
                  b == IF side = "qc" THEN [cmp.qc EXCEPT !.rows = SwapRows(rows, i)] ELSE cmp.qc
              IN cmp' = [cmp EXCEPT !.step = "reordered", !.side = side,
                                    !.reordered = compare_datasets(a, b)]
    /\ UNCHANGED <<orchestrator, val, gen>>

\* run_stage_compare on the two files, in a fresh state: the verdict of
\* compare_datasets, or its exception, becomes comparison_result.
CompareStage ==
    /\ cmp.step = "direct"
    /\ LET res == run_stage_compare(state, cmp.direct.kind)
       IN /\ state' = res.state
          /\ disk' = IF res.saved THEN PipelineState_save(res.state) ELSE disk
    /\ cmp' = [cmp EXCEPT !.step = "staged"]
    /\ UNCHANGED <<draft_spec, approved_spec, max_iterations, args, pc, iteration, exit_code, start, runs, last, warned, invocations, val, gen>>

CompareNext ==
    \/ CompareDirect
    \/ CompareSwapped
    \/ CompareReordered
    \/ CompareStage

CompareSpec == CompareInit /\ [][CompareNext]_vars

\* --------------------------------------- specification: validate_dataset
\* validate_dataset is called on a dataset file; a dataset that passed gets
\* one more row that holds an invalid value and is validated again.
UnknownTerm(df, spec, row) ==
    \E v \in DOMAIN ct_mapping(spec) \cap df.columns :
        /\ ct_mapping(spec)[v] \in DOMAIN CT_VALID_VALUES
        /\ row[v] # NA
        /\ row[v] \notin CT_VALID_VALUES[ct_mapping(spec)[v]]

BadDate(df, row) ==
    \E c \in df.columns : EndsWithDTC(c) /\ row[c] # "" /\ ~iso_pattern_match(row[c])

BadSubjectId(df, spec, row) ==
    /\ "USUBJID" \in df.columns
    /\ \/ \E i \in 1..Len(df.rows) : df.rows[i]["USUBJID"] = row["USUBJID"]
       \/ row["USUBJID"] # NA /\ ~startswith(row["USUBJID"], spec.study_id)

NullCritical(df, row) == \E v \in critical_required \cap df.columns : row[v] = NA

HasInvalidValue(df, spec, row) ==
    UnknownTerm(df, spec, row) \/ BadDate(df, row) \/ BadSubjectId(df, spec, row) \/ NullCritical(df, row)

ValidateInit ==
    /\ NotStarted
    /\ max_iterations = 0
    /\ cmp = NoComparison
    /\ gen = NoGeneration
    /\ \E df \in ValidateFrames, spec \in ValidateSpecs, ig \in IgClients :
          val = [step |-> "input", df |-> df, spec |-> spec, ig |-> ig,
                 report |-> NoReport, before |-> NoReport]

ValidateDataset ==
    /\ val.step \in {"input", "added"}
    /\ val' = [val EXCEPT !.step = IF val.step = "input" THEN "validated" ELSE "revalidated",
                          !.report = validate_dataset(val.df, val.spec, val.ig)]
    /\ UNCHANGED <<orchestrator, cmp, gen>>

AddInvalidValue ==
    /\ val.step = "validated"
    /\ val.report.pass
    /\ \E row \in ValidateRows(val.df.columns) :
          /\ HasInvalidValue(val.df, val.spec, row)
          /\ val' = [val EXCEPT !.step = "added", !.before = val.report,
                                !.df.rows = Append(@, row)]
    /\ UNCHANGED <<orchestrator, cmp, gen>>

ValidateNext ==
    \/ ValidateDataset
    \/ AddInvalidValue

ValidateSpec == ValidateInit /\ [][ValidateNext]_vars

\* ------------------------------------------ specification: generator pair
\* Two copies a and b of one study run the same full-pipeline invocations on
\* the same specification; they differ only in the exit codes of their
\* production programs.
GenerateInit ==
    /\ NotStarted
    /\ max_iterations = 0
    /\ cmp = NoComparison
    /\ val = NoValidation
    /\ \E study \in BOOLEAN, template \in BOOLEAN, spec \in ApprovedSpecs :
          gen = [step |-> "idle", spec |-> spec, invoked |-> 0,
                 a |-> NewStudy(study, template), b |-> NewStudy(study, template)]

GenerateProduction ==
    /\ gen.step = "idle"
    /\ gen.invoked < MaxInvocations
    /\ \E rc_a \in ExitCodes, rc_b \in ExitCodes :
          gen' = [gen EXCEPT !.step = "produced", !.invoked = @ + 1,
                             !.a = GenerateProductionIn(@, gen.spec, rc_a),
                             !.b = GenerateProductionIn(@, gen.spec, rc_b)]
    /\ UNCHANGED <<orchestrator, cmp, val>>

GenerateQc ==
    /\ gen.step = "produced"
    /\ gen' = [gen EXCEPT !.step = "idle",
                          !.a = GenerateQcIn(@, gen.spec),
                          !.b = GenerateQcIn(@, gen.spec)]
    /\ UNCHANGED <<orchestrator, cmp, val>>

GenerateNext ==
    \/ GenerateProduction
    \/ GenerateQc

GenerateSpec == GenerateInit /\ [][GenerateNext]_vars

\* =============================================================== claims
Finished == pc = "idle" /\ exit_code # NotRun

FullRun == args.mode = "full" /\ invocations > 0

\* The loop ended because its test failed on a mismatch: the comparison of
\* iteration max_iterations was the last one and it did not match.
Exhausted ==
    /\ FullRun
    /\ state.comparison_result = "mismatch"
    /\ iteration = max_iterations
    /\ runs["compare"] = max_iterations + 1

\* C1: in one full-pipeline invocation production, QC and comparison each run
\* at most max_iterations + 1 times, and once the comparison has run
\* max_iterations + 1 times the only stage that follows is validation.
C1_IterationBound ==
    FullRun =>
        /\ runs["production"] <= max_iterations + 1
        /\ runs["qc"] <= max_iterations + 1
        /\ runs["compare"] <= max_iterations + 1
        /\ (runs["compare"] = max_iterations + 1
               => /\ pc \in {"loop", "validate", "complete", "idle"}
                  /\ (pc \in {"complete", "idle"} => runs["validate"] = 1))

C1_Witness ==
    /\ FullRun
    /\ max_iterations >= 1
    /\ runs["production"] = max_iterations + 1
    /\ runs["compare"] = max_iterations + 1
    /\ runs["validate"] = 1

\* C2 as stated: when the comparison ends with a mismatch and the iteration
\* counter equals max_iterations, the pipeline goes on to validation without
\* another production/QC run and an entry is appended to error_log.
C2_WarningInErrorLog ==
    (Exhausted /\ pc = "complete") =>
        /\ state.current_phase = "validation"
        /\ runs["production"] = max_iterations + 1
        /\ Len(state.error_log) > Len(start.state.error_log)

\* C2 amended: in that case the loop test leads straight to validation, the
\* warning is printed, and error_log is left as it was when the invocation
\* started.
C2_WarningPrinted ==
    /\ [][(FullRun /\ pc = "loop" /\ state.comparison_result = "mismatch"
              /\ iteration = max_iterations)
            => (pc' = "validate" /\ warned' /\ state' = state /\ runs' = runs)]_vars
    /\ []((Exhausted /\ pc = "complete") =>
            /\ state.current_phase = "validation"
            /\ runs["production"] = max_iterations + 1
            /\ warned
            /\ state.error_log = start.state.error_log)

C2_Witness ==
    /\ Exhausted
    /\ pc = "complete"
    /\ max_iterations >= 1
    /\ warned

\* The phase a resumed invocation may restart from: the persisted phase, or
\* production when the state was persisted inside a production/QC/compare
\* iteration.
ResumeFloor(phase) ==
    IF phase \in {"qc", "comparison"} THEN PhaseIdx("production") ELSE PhaseIdx(phase)

\* C3: a full-pipeline invocation that loaded a persisted state with phase P
\* runs no stage that precedes P (production, for a P inside the loop).
C3_ResumeSkipsCompleted ==
    (FullRun /\ start.loaded) =>
        \A s \in StageNames :
            runs[s] > 0 => PhaseIdx(StagePhase(s)) >= ResumeFloor(start.state.current_phase)

\* C4: comparison_iteration never decreases, except where a fresh
\* (not loaded) state is created.
C4_IterationMonotone ==
    [][\/ (pc = "idle" /\ pc' # "idle" /\ ~start'.loaded)
       \/ state'.comparison_iteration >= state.comparison_iteration]_vars

\* C5: a finished full-pipeline invocation has moved current_phase strictly
\* forward from where it started, or has added an entry to error_log.
C5_Progress ==
    (FullRun /\ Finished) =>
        \/ PhaseIdx(state.current_phase) > PhaseIdx(start.state.current_phase)
        \/ Len(state.error_log) > Len(start.state.error_log)

\* C6: in a full-pipeline invocation QC runs only right after the production
\* program of the same iteration exited 0, comparison only right after the
\* QC program of the same iteration exited 0; and a failed production or QC
\* run of the first pass ends the invocation with exit code 1 before any
\* later stage.
C6_RunnerGates ==
    /\ [][FullRun =>
            /\ (runs'["qc"] = runs["qc"] + 1
                  => last = LogEntry("production", iteration', "ok", 0))
            /\ (runs'["compare"] = runs["compare"] + 1
                  => last = LogEntry("qc", iteration, "ok", 0))]_vars
    /\ []((FullRun /\ last.stage \in {"production", "qc"} /\ last.iter = 0
              /\ last.result # "ok")
            => /\ pc = "idle"
               /\ exit_code = 1
               /\ (last.stage = "production" => runs["qc"] = 0)
               /\ runs["compare"] = 0
               /\ runs["validate"] = 0)

C6_Witness ==
    /\ FullRun
    /\ last.stage = "qc"
    /\ last.iter = 0
    /\ last.result = "exit_nonzero"
    /\ runs["production"] = 1
    /\ pc = "idle"

RunStatus(st, stage) ==
    IF stage = "production" THEN st.production_status ELSE st.qc_status

Fallback(stage) ==
    IF stage = "production"
    THEN [text |-> "Production R script failed", len |-> ProductionFallbackLen]
    ELSE [text |-> "QC R script failed", len |-> QcFallbackLen]

\* C7 as stated: a non-zero exit of a generated program appends exactly one
\* error_log entry, holding the stderr text cut to the bounded length the
\* stage uses, sets the stage's status to failed, and is persisted; a zero
\* exit appends nothing.
C7_TruncatedStderr ==
    [][\A s \in {"production", "qc"} :
          (runs'[s] = runs[s] + 1) =>
              /\ (last'.result = "exit_nonzero" =>
                    /\ Len(state'.error_log) = Len(state.error_log) + 1
                    /\ SubSeq(state'.error_log, 1, Len(state.error_log)) = state.error_log
                    /\ state'.error_log[Len(state'.error_log)].len <= StderrPrintLimit
                    /\ RunStatus(state', s) = "failed"
                    /\ disk' = PipelineState_save(state'))
              /\ (last'.result = "ok" => state'.error_log = state.error_log)]_vars

\* C7 amended: the appended entry is the whole stderr text, whatever its
\* length, or the fixed message of the stage when stderr is empty.
C7_FullStderr ==
    [][\A s \in {"production", "qc"} :
          (runs'[s] = runs[s] + 1) =>
              /\ (last'.result = "exit_nonzero" =>
                    /\ state'.error_log =
                         Append(state.error_log,
                                IF last'.stderr = 0 THEN Fallback(s)
                                ELSE [text |-> "stderr", len |-> last'.stderr])
                    /\ RunStatus(state', s) = "failed"
                    /\ disk' = PipelineState_save(state'))
              /\ (last'.result = "ok" => state'.error_log = state.error_log)]_vars

C7_Witness ==
    /\ last.stage \in {"production", "qc"}
    /\ last.result = "exit_nonzero"
    /\ last.stderr > StderrPrintLimit
    /\ Len(state.error_log) > 0
    /\ state.error_log[Len(state.error_log)].len = last.stderr
    /\ disk = PipelineState_save(state)

\* The failures C8 names, as the finished invocation shows them.
UnrecoveredFailure ==
    \/ (runs["production"] > 0 /\ state.production_status = "failed")
    \/ (runs["qc"] > 0 /\ state.qc_status = "failed")
    \/ (last.stage = "spec_review" /\ last.result = "fail" /\ ~args.force)
    \/ last.result = "no_spec"

\* C8: an invocation whose generated program failed in its last run, whose
\* spec review failed without --force, or that missed a required
\* specification, exits non-zero; any other run of a known stage or of the
\* full pipeline exits 0.
C8_ExitCode ==
    (Finished /\ invocations > 0) =>
        /\ (UnrecoveredFailure => exit_code # 0)
        /\ ((~UnrecoveredFailure /\ (args.mode = "full" \/ args.stage \in StageNames))
               => exit_code = 0)

C10_InputErrorNoRetry ==
    /\ [][(FullRun /\ last.stage = "compare" /\ last.result = "raise")
            => (runs'["production"] <= runs["production"]
                /\ runs'["qc"] <= runs["qc"])]_vars
    /\ []((last.stage \in {"production", "qc"} /\ last.result = "no_spec")
            => RunStatus(state, last.stage) = "failed")

LaterStages == {"human_review", "production", "qc", "compare", "validate"}

\* C11: in a full-pipeline invocation human review runs only right after a
\* spec review that passed or was overridden by --force, no later stage runs
\* without human review having run, and a failed review without --force ends
\* the invocation with exit code 1, the state persisted and no later stage
\* run.
C11_ReviewGate ==
    /\ [][FullRun =>
            (runs'["human_review"] = runs["human_review"] + 1
               => /\ last.stage = "spec_review"
                  /\ (last.result = "pass" \/ args.force))]_vars
    /\ [](FullRun =>
            \A s \in LaterStages : runs[s] > 0 => runs["human_review"] = 1)
    /\ []((FullRun /\ last.stage = "spec_review" /\ last.result # "pass" /\ ~args.force)
            => /\ pc = "idle"
               /\ exit_code = 1
               /\ disk = PipelineState_save(state)
               /\ state.current_phase = "spec_review"
               /\ \A s \in LaterStages : runs[s] = 0)

C11_Witness ==
    /\ FullRun
    /\ last.stage = "spec_review"
    /\ last.result = "fail"
    /\ ~args.force
    /\ pc = "idle"
    /\ exit_code = 1
    /\ disk = PipelineState_save(state)

\* ------------------------------------------------------ compare_datasets
Compared == cmp.step \in {"direct", "swapped", "reordered"}

KeyInBoth == IdColumn \in cmp.prod.columns /\ IdColumn \in cmp.qc.columns

\* C12: compare_datasets is symmetric in its two datasets: compare(A, B) and
\* compare(B, A) give the same verdict (both match, both mismatch, or both
\* raise) and flag the same set of columns as differing.
C12_Symmetric ==
    cmp.step \in {"swapped", "reordered"}
        => /\ cmp.direct.kind = cmp.swapped.kind
           /\ DOMAIN cmp.direct.report = DOMAIN cmp.swapped.report

C12_Witness ==
    /\ cmp.step = "swapped"
    /\ cmp.prod.columns # cmp.qc.columns
    /\ cmp.direct.kind = "mismatch"
    /\ DOMAIN cmp.swapped.report = {"SEX"}
    /\ \E i \in 1..Len(cmp.prod.rows) : cmp.prod.rows[i]["SEX"] = NA

\* C13: when the key column is in both datasets, exchanging two rows of one
\* input never changes the isMatch verdict of compare_datasets, repeated key
\* values included.
C13_RowOrderInvariant ==
    (cmp.step = "reordered" /\ KeyInBoth)
        => ((cmp.reordered.kind = "match") <=> (cmp.direct.kind = "match"))

\* Every cell of every column common to both datasets has the same
\* normalised text, after both were sorted by the key when both have it.
CommonCellsEqual(a, b) ==
    LET sorted == IdColumn \in a.columns /\ IdColumn \in b.columns
        p      == IF sorted THEN sort_values(a.rows, IdColumn) ELSE a.rows
        q      == IF sorted THEN sort_values(b.rows, IdColumn) ELSE b.rows
    IN \A c \in a.columns \cap b.columns :
          /\ Len(p) = Len(q)
          /\ \A i \in 1..Len(p) : fillna_astype_str(p[i][c]) = fillna_astype_str(q[i][c])

\* C14: compare_datasets returns isMatch = true iff every cell of every
\* common column has equal normalised text (null as the empty string) after
\* the sort by the key; in particular two datasets without a common column,
\* and two empty datasets, match.
C14_MatchIffCellsEqual ==
    Compared => ((cmp.direct.kind = "match") <=> CommonCellsEqual(cmp.prod, cmp.qc))

\* ------------------------------------------------------ validate_dataset
Validated == val.step \in {"validated", "revalidated"}

\* the checks that decide pass: all but the type check
BindingKinds == {"required_variables", "ig_required_variables", "ct", "iso",
                 "usubjid_unique", "usubjid_format", "not_null"}

TypeMismatch(df, spec) ==
    {v \in (DOMAIN spec.variables) \cap df.columns :
        spec.variables[v].data_type = "Num" /\ v \notin df.numeric}

C16_Monotone ==
    val.step = "revalidated"
        => /\ DOMAIN val.report.checks = DOMAIN val.before.checks
           /\ \A k \in DOMAIN val.report.checks :
                 val.report.checks[k] => val.before.checks[k]
           /\ val.report.pass => val.before.pass

C16_Witness ==
    /\ val.step = "revalidated"
    /\ val.before.pass
    /\ ~val.report.pass
    /\ {<<"iso", "RFSTDTC">>, <<"usubjid_unique", "">>} \subseteq DOMAIN val.report.checks
    /\ val.before.checks[<<"iso", "RFSTDTC">>]
    /\ ~val.report.checks[<<"iso", "RFSTDTC">>]
    /\ val.report.checks[<<"usubjid_unique", "">>]

\* ------------------------------------------------------------ main, again
\* C17: within one full-pipeline invocation current_phase only moves forward
\* in the phase order, except for the loop-back from comparison to
\* production, taken only on a mismatch with the counter, already
\* incremented by one for this retry, within max_iterations.
C17_PhaseMonotone ==
    [][(args.mode = "full" /\ pc # "idle")
          => \/ PhaseIdx(state'.current_phase) >= PhaseIdx(state.current_phase)
             \/ /\ state.current_phase = "comparison"
                /\ state'.current_phase = "production"
                /\ state.comparison_result = "mismatch"
                /\ iteration = runs["compare"]
                /\ iteration <= max_iterations]_vars

\* C18: once a stage function has returned, and until the next one has, the
\* persisted record is the in-memory state.
C18_PersistedIsMemory ==
    (invocations > 0 /\ last # NoEntry) => disk = PipelineState_save(state)

\* C19: an invocation in which compare_datasets raised ends with a new
\* error_log entry and a failure value of comparison_result in the
\* persisted record.
C19_ErrorRecorded ==
    (Finished /\ last.stage = "compare" /\ last.result = "raise")
        => /\ disk # NoFile
           /\ PipelineState_load(disk).comparison_result = "mismatch"
           /\ Len(PipelineState_load(disk).error_log) > Len(start.state.error_log)

\* The artifacts each stage function registers.
Produces(stage) ==
    CASE stage = "spec_build"   -> {"draft_spec"}
      [] stage = "human_review" -> {"approved_spec"}
      [] stage = "production"   -> {"production_script", "production_dataset", "production_xpt"}
      [] stage = "qc"           -> {"qc_script", "qc_dataset"}
      [] OTHER                  -> {}

\* C20: a step of an invocation removes no name from the artifact registry
\* and adds only names produced by the stage it ran; the state loaded by
\* --resume has every name of the persisted registry.
C20_ArtifactsOnlyAdded ==
    [][/\ pc # "idle"
          => /\ state.artifacts \subseteq state'.artifacts
             /\ \A k \in state'.artifacts \ state.artifacts :
                   \E s \in StageNames : runs'[s] = runs[s] + 1 /\ k \in Produces(s)
       /\ (pc = "idle" /\ pc' # "idle" /\ start'.loaded)
          => PipelineState_load(disk).artifacts \subseteq state'.artifacts]_vars

C20_Witness ==
    /\ start.loaded
    /\ "draft_spec" \in start.state.artifacts
    /\ "production_dataset" \notin start.state.artifacts
    /\ {"draft_spec", "production_dataset"} \subseteq state.artifacts

\* The rows in which a common column differs, counted from the two files as
\* compare_datasets aligns them (sorted by the key when both have it).
DifferingRows(a, b, c) ==
    LET sorted == IdColumn \in a.columns /\ IdColumn \in b.columns
        p      == IF sorted THEN sort_values(a.rows, IdColumn) ELSE a.rows
        q      == IF sorted THEN sort_values(b.rows, IdColumn) ELSE b.rows
    IN Cardinality({i \in 1..Len(p) : fillna_astype_str(p[i][c]) # fillna_astype_str(q[i][c])})

\* C21: on a mismatch the report has an entry exactly for the common columns
\* with at least one differing row, and the entry gives the number of
\* differing rows of its column; on a match the report flags no column.
C21_ReportPerColumn ==
    Compared
        => /\ cmp.direct.kind = "mismatch"
                => /\ DOMAIN cmp.direct.report # {}
                   /\ DOMAIN cmp.direct.report \subseteq cmp.prod.columns \cap cmp.qc.columns
                   /\ \A c \in cmp.prod.columns \cap cmp.qc.columns :
                         /\ c \in DOMAIN cmp.direct.report <=> DifferingRows(cmp.prod, cmp.qc, c) > 0
                         /\ c \in DOMAIN cmp.direct.report
                               => cmp.direct.report[c] = DifferingRows(cmp.prod, cmp.qc, c)
           /\ cmp.direct.kind = "match" => DOMAIN cmp.direct.report = {}

C21_Witness ==
    /\ cmp.step = "direct"
    /\ cmp.direct.kind = "mismatch"
    /\ cmp.prod.columns = CompareColumns
    /\ cmp.qc.columns = CompareColumns
    /\ Len(cmp.prod.rows) = MaxRows
    /\ DOMAIN cmp.direct.report = {"SEX"}
    /\ cmp.direct.report["SEX"] = 1

\* C22: for every column named ...DTC the date check is recorded and passes
\* iff every non-null value matches YYYY-MM-DD; a value that does not match,
\* the empty string included, fails it, adds an issue and makes pass false.
C22_DateCheck ==
    (Validated /\ val.df.readable)
        => \A c \in {d \in val.df.columns : EndsWithDTC(d)} :
              /\ <<"iso", c>> \in DOMAIN val.report.checks
              /\ val.report.checks[<<"iso", c>>]
                    = (\A x \in NonNull(val.df, c) : iso_pattern_match(x))
              /\ ~val.report.checks[<<"iso", c>>]
                    => (<<"iso", c>> \in val.report.issues /\ ~val.report.pass)

\* C23: every variable of the specification that names a codelist and is a
\* column of the dataset has a vocabulary check in the report; the check
\* fails, with an issue and pass = false, whenever a non-null value is
\* outside the known value set of the codelist.
C23_VocabularyChecked ==
    (Validated /\ val.df.readable)
        => \A v \in {w \in DOMAIN val.spec.variables : val.spec.variables[w].codelist_code # ""} \cap val.df.columns :
              LET codelist == val.spec.variables[v].codelist_code
              IN /\ <<"ct", v>> \in DOMAIN val.report.checks
                 /\ (codelist \in DOMAIN CT_VALID_VALUES
                        /\ ~(NonNull(val.df, v) \subseteq CT_VALID_VALUES[codelist]))
                       => /\ ~val.report.checks[<<"ct", v>>]
                          /\ <<"ct", v>> \in val.report.issues
                          /\ ~val.report.pass

\* ------------------------------------------------------- generator pair
\* C24: the program texts are functions of the specification only: two runs
\* that differ only in production-side state generate the same QC program,
\* and the same production program.
C24_GeneratorIndependence ==
    (gen.step = "idle" /\ gen.invoked > 0)
        => /\ gen.a.production_script = gen.b.production_script
           /\ (gen.a.qc_script # NoScript /\ gen.b.qc_script # NoScript)
                 => gen.a.qc_script = gen.b.qc_script

\* -------------------------------------------------- failure inside the loop
\* A production or QC program exited non-zero in a loop-back iteration of
\* the running full-pipeline invocation.
LoopFailure ==
    /\ FullRun
    /\ last.stage \in {"production", "qc"}
    /\ last.result = "exit_nonzero"
    /\ last.iter >= 1

\* C25: a production or QC program that exits non-zero in a loop-back
\* iteration ends the comparison loop at once: comparison_result keeps the
\* mismatch of the previous iteration, no production, QC or comparison run
\* follows in that invocation, and validation still runs, with the
\* production dataset registered, before the invocation ends.
C25_LoopFailureEndsLoop ==
    /\ [](LoopFailure
            => /\ pc = "validate"
               /\ state.comparison_result = "mismatch"
               /\ state.comparison_iteration = last.iter
               /\ "production_dataset" \in state.artifacts)
    /\ [][LoopFailure
            => /\ pc' = "complete"
               /\ last'.stage = "validate"
               /\ runs' = [runs EXCEPT !["validate"] = @ + 1]
               /\ state'.validation_status \in {"passed", "failed"}
               /\ state'.comparison_result = "mismatch"]_vars
    /\ [][(FullRun /\ pc = "complete")
            => /\ pc' = "idle"
               /\ runs' = runs
               /\ exit_code' = 0]_vars

C25_Witness ==
    /\ FullRun
    /\ Finished
    /\ exit_code = 0
    /\ state.qc_status = "failed"
    /\ state.comparison_iteration = MaxMaxIterations
    /\ state.comparison_result = "mismatch"
    /\ runs["qc"] = MaxMaxIterations + 1
    /\ runs["compare"] = MaxMaxIterations
    /\ runs["validate"] = 1
    /\ state.validation_status = "passed"

\* ------------------------------------------------------ reproducing runs
\* A full-pipeline invocation in which every loop-back reproduced the first
\* pass: no program failed after the first comparison and no comparison gave
\* another verdict than the mismatch of the first one.  (A failed program
\* leaves its status "failed", a matching comparison leaves "match".)
Reproduced ==
    /\ FullRun
    /\ runs["compare"] > 0
    /\ state.production_status = "completed"
    /\ state.qc_status = "completed"
    /\ state.comparison_result = "mismatch"

\* C26: when every loop-back reproduces the outcomes of the first pass and
\* the first comparison is a mismatch, with max_iterations > 0, the loop
\* makes exactly max_iterations loop-backs and ends with comparison_result =
\* "mismatch" and comparison_iteration = max_iterations.
C26_ReproducedMismatch ==
    /\ [][(Reproduced /\ max_iterations > 0 /\ pc = "loop" /\ iteration < max_iterations)
            => (pc' = "loop_production" /\ iteration' = iteration + 1)]_vars
    /\ []((Reproduced /\ max_iterations > 0 /\ Finished)
            => /\ iteration = max_iterations
               /\ state.comparison_iteration = max_iterations
               /\ state.comparison_result = "mismatch"
               /\ runs["production"] = max_iterations + 1
               /\ runs["qc"] = max_iterations + 1
               /\ runs["compare"] = max_iterations + 1)

C26_Witness ==
    /\ Reproduced
    /\ Finished
    /\ max_iterations = MaxMaxIterations
    /\ state.comparison_iteration = MaxMaxIterations
    /\ runs["compare"] = MaxMaxIterations + 1
    /\ warned

\* ---------------------------------------------------- unequal row counts
SameRowCount == Len(cmp.prod.rows) = Len(cmp.qc.rows)

Staged == cmp.step = "staged"

\* C27: comparison_result becomes "match" only for datasets with the same
\* number of rows: for different row counts compare_datasets gives no
\* verdict but fails, and run_stage_compare turns the failure into
\* comparison_result = "mismatch" without an error_log entry.
C27_MatchNeedsSameRowCount ==
    /\ ((Compared \/ Staged) /\ ~SameRowCount) => cmp.direct.kind = "raise"
    /\ Staged
          => /\ state.comparison_result = "match" => (SameRowCount /\ cmp.direct.kind = "match")
             /\ cmp.direct.kind = "raise"
                   => /\ state.comparison_result = "mismatch"
                      /\ state.error_log = PipelineState.error_log
                      /\ disk = PipelineState_save(state)

C27_Witness ==
    /\ Staged
    /\ Len(cmp.prod.rows) = MaxRows
    /\ Len(cmp.qc.rows) < MaxRows
    /\ cmp.prod.columns = CompareColumns
    /\ cmp.qc.columns = CompareColumns
    /\ state.comparison_result = "mismatch"
    /\ state.current_phase = "comparison"
    /\ state.error_log = <<>>

\* ------------------------------------------------- end of a fresh full run
\* A full-pipeline invocation that started from a fresh state and returned
\* from the end of main().
FreshFullRunDone == FullRun /\ ~start.loaded /\ Finished /\ exit_code = 0

\* C28: when a fresh full-pipeline invocation completes normally, the
\* persisted state has current_phase "validation", spec_status "approved",
\* comparison_result "match" or "mismatch", validation_status "passed" or
\* "failed", and a comparison_iteration between 0 and max_iterations that
\* equals the number of loop-back iterations started.
C28_FinalState ==
    FreshFullRunDone
        => /\ disk # NoFile
           /\ LET s == PipelineState_load(disk)
              IN /\ s.current_phase = "validation"
                 /\ s.spec_status = "approved"
                 /\ s.comparison_result \in {"match", "mismatch"}
                 /\ s.validation_status \in {"passed", "failed"}
                 /\ s.comparison_iteration >= 0
                 /\ s.comparison_iteration <= max_iterations
                 /\ s.comparison_iteration = iteration
                 /\ s.comparison_iteration + 1 = runs["production"]

C28_Witness ==
    /\ FreshFullRunDone
    /\ args.force
    /\ invocations = MaxInvocations
    /\ PipelineState_load(disk).comparison_iteration = MaxMaxIterations
    /\ PipelineState_load(disk).production_status = "failed"
    /\ PipelineState_load(disk).validation_status = "failed"
    /\ PipelineState_load(disk).spec_status = "approved"

\* --------------------------------------------- single stage without --resume
\* A single-stage invocation of a known stage, without --resume, has ended.
FreshStageDone ==
    /\ invocations > 0
    /\ Finished
    /\ args.mode = "stage"
    /\ args.stage \in StageNames
    /\ ~args.resume

\* The states stage X leaves when it starts from a fresh Pipeline State.
StageOnFresh(stage) ==
    {StageResult(stage, PipelineState, has_draft, has_spec, review_pass, decisions, rc, stderr_len, outcome, report_pass).state :
        has_draft \in BOOLEAN, has_spec \in BOOLEAN, review_pass \in BOOLEAN,
        decisions \in HumanDecisionChoices, rc \in ExitCodes, stderr_len \in StderrLens,
        outcome \in CompareOutcomes, report_pass \in BOOLEAN}

\* C29: a single-stage invocation without --resume starts from a fresh
\* Pipeline State, and when the stage persists, the state file holds what
\* stage X wrote into a fresh state and nothing else: comparison_iteration
\* is 0 and no error or artifact of an earlier invocation is left,
\* whatever the file held before.
C29_SingleStageFresh ==
    FreshStageDone
        => /\ start = [loaded |-> FALSE, state |-> PipelineState]
           /\ last.stage = args.stage
           /\ last.result # "no_spec"
                 => /\ disk # NoFile
                    /\ PipelineState_load(disk) \in StageOnFresh(args.stage)
                    /\ PipelineState_load(disk).comparison_iteration = 0
                    /\ Len(PipelineState_load(disk).error_log) <= 1

C29_Witness ==
    /\ FreshStageDone
    /\ args.stage = "compare"
    /\ invocations = MaxInvocations
    /\ approved_spec
    /\ last.result = "match"
    /\ PipelineState_load(disk).comparison_result = "match"
    /\ PipelineState_load(disk).spec_status = "draft"
    /\ PipelineState_load(disk).production_status = "pending"
    /\ PipelineState_load(disk).artifacts = {}

\* ------------------------------------------------- persistence round trip
\* main() has just started with --resume and found the state file.
Resumed == pc \in {"stage", "spec_build"} /\ args.resume /\ disk # NoFile

====
